---- MODULE Spec2Model ----
(***************************************************************************)
(* InitializeEnclaveAssertionAuthorities (asylo/identity/init.h): the      *)
(* orchestrator that matches configuration records to the statically      *)
(* registered assertion generators and verifiers, initializes them, and    *)
(* reports one aggregate status.  Several callers may run it concurrently; *)
(* one TryInitialize on one authority is one atomic step.                  *)
(***************************************************************************)
EXTENDS Integers, Sequences, FiniteSets, TLC

\* ---------------------------------------------------------------- bounds

\* Config records passed in one behaviour, over all calls.
MaxRecords == 2

\* The threads that call the function, once each: the second call either
\* overlaps the first or begins after it has returned.
Callers == {1, 2}

\* ------------------------------------------------------------ data model

\* The empty config string of the second pass.
EmptyConfigPlaceholder == "default"

EmptyConfig == ""

\* The value of an authority's config while it is uninitialized.
NoConfig == "<none>"

\* An identity type GenerateAuthorityId rejects.
UnknownIdentity == "?"

\* EnclaveAssertionAuthorityConfig records a caller may pass:
\* description.identity_type, description.authority_type, config.
ConfigRecords ==
  { [identity_type |-> "A", authority_type |-> "1", config |-> "x"],
    [identity_type |-> "A", authority_type |-> "1", config |-> ""],
    [identity_type |-> "A", authority_type |-> "2", config |-> "x"],
    [identity_type |-> UnknownIdentity, authority_type |-> "1", config |-> "x"] }

\* The ranges [configs_begin, configs_end) a caller may pass.
ConfigSeqs == UNION { [1..n -> ConfigRecords] : n \in 0..MaxRecords }

\* EnclaveAssertionAuthority::GenerateAuthorityId: a StatusOr holding the
\* identifier of the (identity_type, authority_type) pair, or an error for
\* an unsupported identity type.
GenerateAuthorityId(identity_type, authority_type) ==
  IF identity_type = UnknownIdentity
  THEN [ok |-> FALSE, value |-> <<>>]
  ELSE [ok |-> TRUE, value |-> <<identity_type, authority_type>>]

\* The static maps as populated before the first call, each in the order
\* Values() enumerates it: a program that registers "A:1" as a generator and
\* as a verifier, one that registers only generators, one that registers only
\* verifiers.  "A:2" is registered nowhere in the first, and each program
\* leaves some identifier without a generator or without a verifier.
StaticMaps ==
  { [generators |-> << <<"A", "1">> >>, verifiers |-> << <<"A", "1">> >>],
    [generators |-> << <<"A", "1">>, <<"A", "2">> >>, verifiers |-> << >>],
    [generators |-> << >>, verifiers |-> << <<"A", "1">>, <<"A", "2">> >>] }

Range(s) == { s[k] : k \in 1..Len(s) }

VARIABLES
  generators,   \* AssertionGeneratorMap: the registered identifiers
  verifiers,    \* AssertionVerifierMap: the registered identifiers
  authority,    \* each authority's latch, effective config, Initialize count
  used,         \* config records passed so far
  pc,           \* each caller's position in the function
  configs,      \* each caller's range [configs_begin, configs_end)
  it,           \* each caller's iterator (an index into configs)
  ok,           \* each caller's accumulator
  gi,           \* each caller's position in AssertionGeneratorMap::Values()
  vi,           \* each caller's position in AssertionVerifierMap::Values()
  log,          \* each caller's trace of its call (history)
  pred,         \* per caller: the call that had returned when it began (history)
  returned      \* the call that returned last (history)

vars == <<generators, verifiers, authority, used, pc, configs, it, ok, gi, vi,
          log, pred, returned>>

registry == <<generators, verifiers>>
locals == <<configs, it, ok, gi, vi>>
ghosts == <<pred, returned>>

\* An authority instance: the map it is registered in and its identifier.
Authorities ==
  { <<"gen", id>> : id \in Range(generators) }
    \cup { <<"ver", id>> : id \in Range(verifiers) }

\* The authorities whose latch is set.
Initialized == { a \in Authorities : authority[a].initialized }

\* What a returned call leaves behind; real is FALSE while none has returned.
NoCall ==
  [configs |-> <<>>, ok |-> FALSE, auth |-> <<>>, real |-> FALSE]

\* AssertionGeneratorMap::GetValue / AssertionVerifierMap::GetValue: whether
\* the identifier has an entry (an iterator other than value_end()).
GetValue(map, authority_id) == authority_id \in Range(map)

Init ==
  /\ \E m \in StaticMaps :
       /\ generators = m.generators
       /\ verifiers = m.verifiers
       /\ authority =
            [a \in { <<"gen", id>> : id \in Range(m.generators) }
                     \cup { <<"ver", id>> : id \in Range(m.verifiers) } |->
               [initialized |-> FALSE, config |-> NoConfig, inits |-> 0]]
  /\ used = 0
  /\ pc = [c \in Callers |-> "idle"]
  /\ configs = [c \in Callers |-> <<>>]
  /\ it = [c \in Callers |-> 1]
  /\ ok = [c \in Callers |-> TRUE]
  /\ gi = [c \in Callers |-> 1]
  /\ vi = [c \in Callers |-> 1]
  /\ log = [c \in Callers |-> <<>>]
  /\ pred = [c \in Callers |-> NoCall]
  /\ returned = NoCall

\* ------------------------------------------------------- internal::TryInitialize

\* internal::TryInitialize(config, authority): a no-op that reports success on
\* an initialized authority; otherwise one run of the authority's own
\* Initialize(config), which either accepts (the latch is set, once) or
\* rejects (the authority stays uninitialized).  Check and set are one step.
TryInitializeUnlatched(config, a, status) ==
  \/ /\ status = TRUE
     /\ authority' = [authority EXCEPT ![a] =
                        [initialized |-> TRUE, config |-> config,
                         inits |-> @.inits + 1]]
  \/ /\ status = FALSE
     /\ UNCHANGED authority

TryInitialize(config, a, status) ==
  IF authority[a].initialized
  THEN /\ status = TRUE
       /\ UNCHANGED authority
  ELSE \/ /\ status = TRUE
          /\ authority' = [authority EXCEPT ![a] =
                             [initialized |-> TRUE, config |-> config,
                              inits |-> @.inits + 1]]
       \/ /\ status = FALSE
          /\ UNCHANGED authority

\* ------------------------------------------------------------ the function

\* if (!TryInitialize(...).ok()) { ok = false; }
FoldLast(acc, status) == status

Fold(acc, status) == acc /\ status

\* The else branch of a lookup: ok = false (and a warning is logged).
UnmatchedOnlyLogged(acc) == acc

Unmatched(acc) == FALSE

\* Where the first loop goes from iterator position i: the next record, or
\* past configs_end to the second pass.
AfterRecordNoSecondPass(cfgs, i) == IF i <= Len(cfgs) THEN "derive" ELSE "ret"

AfterRecord(cfgs, i) ==
  IF i <= Len(cfgs) THEN "derive"
  ELSE IF Len(generators) > 0 THEN "fbgen"
  ELSE IF Len(verifiers) > 0 THEN "fbver"
  ELSE "ret"

\* Where the generator loop of the second pass goes from position i.
AfterGeneratorNoVerifiers(i) == IF i <= Len(generators) THEN "fbgen" ELSE "ret"

AfterGenerator(i) ==
  IF i <= Len(generators) THEN "fbgen"
  ELSE IF Len(verifiers) > 0 THEN "fbver"
  ELSE "ret"

\* Where the verifier loop of the second pass goes from position i.
AfterVerifierOnce(i) == "ret"

AfterVerifier(i) == IF i <= Len(verifiers) THEN "fbver" ELSE "ret"

\* Lines 70-74: ok = false; continue; the for loop then does ++it.
ContinueAsReturn(cfgs, i) == "ret"

ContinueAsBreak(cfgs, i) == AfterRecord(cfgs, Len(cfgs) + 1)

Continue(cfgs, i) == AfterRecord(cfgs, i + 1)

\* One entry of a call's trace: a failed derivation ("derive"), a lookup that
\* found no entry ("miss") or a TryInitialize ("try") with its status; rec is
\* the record's position, 0 in the second pass.
Event(kind, rec, reg, id, cfg, res) ==
  [kind |-> kind, rec |-> rec, reg |-> reg, id |-> id, cfg |-> cfg, res |-> res]

\* A caller enters the function: bool ok = true; it = configs_begin.  The
\* callers are interchangeable, so caller 1 is the first to enter.
Begin(c, cfgs) ==
  /\ pc[c] = "idle"
  /\ c = 1 \/ pc[1] # "idle"
  /\ used + Len(cfgs) <= MaxRecords
  /\ used' = used + Len(cfgs)
  /\ configs' = [configs EXCEPT ![c] = cfgs]
  /\ ok' = [ok EXCEPT ![c] = TRUE]
  /\ it' = [it EXCEPT ![c] = 1]
  /\ pc' = [pc EXCEPT ![c] = AfterRecord(cfgs, 1)]
  /\ pred' = [pred EXCEPT ![c] = returned]
  /\ UNCHANGED <<registry, authority, gi, vi, log, returned>>

\* Lines 64-87 with the verifier lookup skipped when no generator matches.
GenStepSkipsVerifier(c) ==
  /\ pc[c] = "derive"
  /\ LET config == configs[c][it[c]]
         authority_id_result ==
           GenerateAuthorityId(config.identity_type, config.authority_type)
         authority_id == authority_id_result.value
     IN IF ~authority_id_result.ok
        THEN /\ ok' = [ok EXCEPT ![c] = FALSE]
             /\ log' = [log EXCEPT ![c] =
                          Append(@, Event("derive", it[c], "none", authority_id,
                                          config.config, FALSE))]
             /\ it' = [it EXCEPT ![c] = @ + 1]
             /\ pc' = [pc EXCEPT ![c] = AfterRecord(configs[c], it[c] + 1)]
             /\ UNCHANGED authority
        ELSE IF GetValue(generators, authority_id)
        THEN /\ \E status \in BOOLEAN :
                  /\ TryInitialize(config.config, <<"gen", authority_id>>,
                                   status)
                  /\ ok' = [ok EXCEPT ![c] = status /\ @]
                  /\ log' = [log EXCEPT ![c] =
                               Append(@, Event("try", it[c], "gen",
                                               authority_id, config.config,
                                               status))]
             /\ pc' = [pc EXCEPT ![c] = "ver"]
             /\ UNCHANGED it
        ELSE /\ ok' = [ok EXCEPT ![c] = FALSE]
             /\ log' = [log EXCEPT ![c] =
                          Append(@, Event("miss", it[c], "gen", authority_id,
                                          config.config, FALSE))]
             /\ it' = [it EXCEPT ![c] = @ + 1]
             /\ pc' = [pc EXCEPT ![c] = AfterRecord(configs[c], it[c] + 1)]
             /\ UNCHANGED authority
  /\ UNCHANGED <<registry, used, configs, gi, vi, ghosts>>

\* Lines 64-87: dereference the iterator and derive the authority identifier;
\* on failure ok = false and continue with the next record.  Otherwise look
\* the identifier up in AssertionGeneratorMap and TryInitialize the generator
\* with the record's config, or ok = false when there is none.
GenStep(c) ==
  /\ pc[c] = "derive"
  /\ LET config == configs[c][it[c]]
         authority_id_result ==
           GenerateAuthorityId(config.identity_type, config.authority_type)
         authority_id == authority_id_result.value
     IN IF ~authority_id_result.ok
        THEN /\ ok' = [ok EXCEPT ![c] = FALSE]
             /\ log' = [log EXCEPT ![c] =
                          Append(@, Event("derive", it[c], "none", authority_id,
                                          config.config, FALSE))]
             /\ it' = [it EXCEPT ![c] = @ + 1]
             /\ pc' = [pc EXCEPT ![c] = Continue(configs[c], it[c])]
             /\ UNCHANGED authority
        ELSE /\ IF GetValue(generators, authority_id)
                THEN \E status \in BOOLEAN :
                       /\ TryInitialize(config.config, <<"gen", authority_id>>,
                                        status)
                       /\ ok' = [ok EXCEPT ![c] = Fold(@, status)]
                       /\ log' = [log EXCEPT ![c] =
                                    Append(@, Event("try", it[c], "gen",
                                                    authority_id, config.config,
                                                    status))]
                ELSE /\ ok' = [ok EXCEPT ![c] = Unmatched(@)]
                     /\ log' = [log EXCEPT ![c] =
                                  Append(@, Event("miss", it[c], "gen",
                                                  authority_id, config.config,
                                                  FALSE))]
                     /\ UNCHANGED authority
             /\ pc' = [pc EXCEPT ![c] = "ver"]
             /\ UNCHANGED it
  /\ UNCHANGED <<registry, used, configs, gi, vi, ghosts>>

\* Lines 89-98: the same against AssertionVerifierMap, then ++it.
VerStepStaleId(c) ==
  /\ pc[c] = "ver"
  /\ LET config == configs[c][it[c]]
         authority_id ==
           GenerateAuthorityId(configs[c][1].identity_type,
                               configs[c][1].authority_type).value
     IN IF GetValue(verifiers, authority_id)
        THEN \E status \in BOOLEAN :
               /\ TryInitialize(config.config, <<"ver", authority_id>>, status)
               /\ ok' = [ok EXCEPT ![c] = status /\ @]
               /\ log' = [log EXCEPT ![c] =
                            Append(@, Event("try", it[c], "ver", authority_id,
                                            config.config, status))]
        ELSE /\ ok' = [ok EXCEPT ![c] = FALSE]
             /\ log' = [log EXCEPT ![c] =
                          Append(@, Event("miss", it[c], "ver", authority_id,
                                          config.config, FALSE))]
             /\ UNCHANGED authority
  /\ it' = [it EXCEPT ![c] = @ + 1]
  /\ pc' = [pc EXCEPT ![c] = AfterRecord(configs[c], it[c] + 1)]
  /\ UNCHANGED <<registry, used, configs, gi, vi, ghosts>>

VerStep(c) ==
  /\ pc[c] = "ver"
  /\ LET config == configs[c][it[c]]
         authority_id ==
           GenerateAuthorityId(config.identity_type, config.authority_type).value
     IN IF GetValue(verifiers, authority_id)
        THEN \E status \in BOOLEAN :
               /\ TryInitialize(config.config, <<"ver", authority_id>>, status)
               /\ ok' = [ok EXCEPT ![c] = Fold(@, status)]
               /\ log' = [log EXCEPT ![c] =
                            Append(@, Event("try", it[c], "ver", authority_id,
                                            config.config, status))]
        ELSE /\ ok' = [ok EXCEPT ![c] = Unmatched(@)]
             /\ log' = [log EXCEPT ![c] =
                          Append(@, Event("miss", it[c], "ver", authority_id,
                                          config.config, FALSE))]
             /\ UNCHANGED authority
  /\ it' = [it EXCEPT ![c] = @ + 1]
  /\ pc' = [pc EXCEPT ![c] = AfterRecord(configs[c], it[c] + 1)]
  /\ UNCHANGED <<registry, used, configs, gi, vi, ghosts>>

\* Lines 102-106: TryInitialize the next generator of Values() with "".
FallbackGen(c) ==
  /\ pc[c] = "fbgen"
  /\ LET id == generators[gi[c]]
     IN \E status \in BOOLEAN :
          /\ TryInitialize(EmptyConfig, <<"gen", id>>, status)
          /\ ok' = [ok EXCEPT ![c] = Fold(@, status)]
          /\ log' = [log EXCEPT ![c] =
                       Append(@, Event("try", 0, "gen", id, EmptyConfig, status))]
  /\ gi' = [gi EXCEPT ![c] = @ + 1]
  /\ pc' = [pc EXCEPT ![c] = AfterGenerator(gi[c] + 1)]
  /\ UNCHANGED <<registry, used, configs, it, vi, ghosts>>

\* Lines 107-111: TryInitialize the next verifier of Values() with "".
FallbackVer(c) ==
  /\ pc[c] = "fbver"
  /\ LET id == verifiers[vi[c]]
     IN \E status \in BOOLEAN :
          /\ TryInitialize(EmptyConfig, <<"ver", id>>, status)
          /\ ok' = [ok EXCEPT ![c] = Fold(@, status)]
          /\ log' = [log EXCEPT ![c] =
                       Append(@, Event("try", 0, "ver", id, EmptyConfig, status))]
  /\ vi' = [vi EXCEPT ![c] = @ + 1]
  /\ pc' = [pc EXCEPT ![c] = AfterVerifier(vi[c] + 1)]
  /\ UNCHANGED <<registry, used, configs, it, gi, ghosts>>

\* Lines 113-117: return OkStatus when ok is still true, INTERNAL otherwise
\* (at "done" the returned status is ok[c]).
ReturnWithRollback(c) ==
  /\ pc[c] = "ret"
  /\ pc' = [pc EXCEPT ![c] = "done"]
  /\ authority' =
       IF ok[c] THEN authority
       ELSE [a \in DOMAIN authority |->
               [initialized |-> FALSE, config |-> NoConfig,
                inits |-> authority[a].inits]]
  /\ returned' = [configs |-> configs[c], ok |-> ok[c], auth |-> authority',
                  real |-> TRUE]
  /\ UNCHANGED <<registry, used, locals, log, pred>>

ReturnAfterOtherCallers(c) ==
  /\ pc[c] = "ret"
  /\ \A d \in Callers \ {c} : pc[d] \in {"idle", "done"}
  /\ pc' = [pc EXCEPT ![c] = "done"]
  /\ returned' = [configs |-> configs[c], ok |-> ok[c], auth |-> authority,
                  real |-> TRUE]
  /\ UNCHANGED <<registry, authority, used, locals, log, pred>>

ReturnMergingCallers(c) ==
  /\ pc[c] = "ret"
  /\ pc' = [pc EXCEPT ![c] = "done"]
  /\ ok' = [ok EXCEPT ![c] = \A d \in Callers : ok[d]]
  /\ returned' = [configs |-> configs[c], ok |-> ok'[c], auth |-> authority,
                  real |-> TRUE]
  /\ UNCHANGED <<registry, authority, used, configs, it, gi, vi, log, pred>>

Return(c) ==
  /\ pc[c] = "ret"
  /\ pc' = [pc EXCEPT ![c] = "done"]
  /\ returned' = [configs |-> configs[c], ok |-> ok[c], auth |-> authority,
                  real |-> TRUE]
  /\ UNCHANGED <<registry, authority, used, locals, log, pred>>

Next ==
  \E c \in Callers :
    \/ \E cfgs \in ConfigSeqs : Begin(c, cfgs)
    \/ GenStep(c)
    \/ VerStep(c)
    \/ FallbackGen(c)
    \/ FallbackVer(c)
    \/ Return(c)

Spec == Init /\ [][Next]_vars

\* One step of caller c inside the function.
Step(c) ==
  GenStep(c) \/ VerStep(c) \/ FallbackGen(c) \/ FallbackVer(c) \/ Return(c)

\* Fair scheduling: a caller inside the function keeps running (every
\* TryInitialize and derivation returns); nothing obliges a caller to enter.
FairSpec == Spec /\ \A c \in Callers : WF_vars(Step(c))

TypeOK ==
  /\ used \in 0..MaxRecords
  /\ \A c \in Callers : configs[c] \in ConfigSeqs /\ ok[c] \in BOOLEAN

\* ------------------------------------------------------------- properties

Done(c) == pc[c] = "done"
Indices(l) == 1..Len(l)
Tries(l) == { k \in Indices(l) : l[k].kind = "try" }
AuthorityOf(e) == <<e.reg, e.id>>

\* The authorities a call has invoked TryInitialize on.
TriedBy(l) == { AuthorityOf(l[k]) : k \in Tries(l) }

\* The TryInitialize invocations of the second pass.
SecondPass(l) == { k \in Tries(l) : l[k].rec = 0 }

\* The events of the record at position i.
RecordEvents(l, i) == { k \in Indices(l) : l[k].rec = i }

DerivationFailed(l) == \E k \in Indices(l) : l[k].kind = "derive"
LookupFailed(l) == \E k \in Indices(l) : l[k].kind = "miss"
TryFailed(l) == \E k \in Tries(l) : ~l[k].res

\* C1: over all calls, concurrent or not and whatever their configs, each
\* registered generator and verifier is initialized at most once: its
\* Initialize has succeeded once if its latch is set and never otherwise.
C1_InitializedAtMostOnce ==
  \A a \in Authorities :
    /\ authority[a].inits <= 1
    /\ authority[a].initialized <=> authority[a].inits = 1

\* Two overlapping calls have both passed a record's config to the same
\* authority, with different payloads, and both were told success.
C1_Witness ==
  /\ \A c \in Callers : Done(c)
  /\ ~pred[2].real
  /\ \E a \in Authorities :
       /\ authority[a].initialized
       /\ \E k1 \in Tries(log[1]), k2 \in Tries(log[2]) :
            /\ AuthorityOf(log[1][k1]) = a /\ AuthorityOf(log[2][k2]) = a
            /\ log[1][k1].rec > 0 /\ log[2][k2].rec > 0
            /\ log[1][k1].res /\ log[2][k2].res
            /\ log[1][k1].cfg # log[2][k2].cfg

\* C2: when a call returns, with success or failure, every authority of the
\* generator map and of the verifier map has received at least one
\* TryInitialize from that call.
C2_Completeness ==
  \A c \in Callers : Done(c) => Authorities \subseteq TriedBy(log[c])

\* A call that met a derivation failure and an unmatched record has returned
\* failure, and it has tried both registered authorities.
C2_Witness ==
  \E c \in Callers :
    /\ Done(c) /\ ~ok[c]
    /\ DerivationFailed(log[c]) /\ LookupFailed(log[c])
    /\ Cardinality(Authorities) = 2
    /\ Authorities \subseteq TriedBy(log[c])

\* C3: a call returns a non-ok status if and only if, during that call, a
\* derivation failed, a lookup found no generator or no verifier, or some
\* TryInitialize returned failure.
C3_NonOkIffFailureObserved ==
  \A c \in Callers :
    Done(c) =>
      (~ok[c] <=> \/ DerivationFailed(log[c])
                  \/ LookupFailed(log[c])
                  \/ TryFailed(log[c]))

\* One call has returned failure because exactly one of its TryInitialize
\* invocations failed among several that succeeded; the other call passed a
\* record, met no failure and has returned ok.
C3_Witness ==
  \E c, d \in Callers :
    /\ Done(c) /\ ~ok[c]
    /\ ~DerivationFailed(log[c]) /\ ~LookupFailed(log[c])
    /\ Cardinality({ k \in Tries(log[c]) : ~log[c][k].res }) = 1
    /\ Cardinality({ k \in Tries(log[c]) : log[c][k].res }) >= 2
    /\ Done(d) /\ ok[d] /\ Len(configs[d]) > 0

\* C4: a failure at record i never prevents records i+1..n from being
\* processed in iteration order, nor the second pass over both maps: once the
\* first loop is left every record has been processed, the records' events
\* are in iteration order and precede the second pass, and at return the
\* second pass has tried every generator and every verifier.
C4_NonShortCircuit ==
  \A c \in Callers :
    /\ \A k1, k2 \in Indices(log[c]) :
         k1 < k2 =>
           \/ log[c][k2].rec = 0
           \/ log[c][k1].rec # 0 /\ log[c][k1].rec <= log[c][k2].rec
    /\ pc[c] \in {"fbgen", "fbver", "ret", "done"} =>
         \A i \in 1..Len(configs[c]) : RecordEvents(log[c], i) # {}
    /\ Done(c) =>
         \A a \in Authorities :
           \E k \in SecondPass(log[c]) : AuthorityOf(log[c][k]) = a

\* A call of two records whose first record failed to derive has returned;
\* the second record was matched and the second pass ran.
C4_Witness ==
  \E c \in Callers :
    /\ Done(c) /\ Len(configs[c]) = 2
    /\ \E k \in RecordEvents(log[c], 1) : log[c][k].kind = "derive"
    /\ \E k \in RecordEvents(log[c], 2) : log[c][k].kind = "try"
    /\ \A a \in Authorities :
         \E k \in SecondPass(log[c]) : AuthorityOf(log[c][k]) = a

\* The authorities whose latch is set in a snapshot of the authorities.
InitializedIn(auth) == { a \in DOMAIN auth : auth[a].initialized }

\* The call of c began after another call, with the same configs, returned.
RepeatsReturnedCall(c) ==
  Done(c) /\ pred[c].real /\ pred[c].configs = configs[c]

\* Every TryInitialize of c on an authority the earlier call left initialized
\* reported success, and those authorities are as the earlier call left them.
LeavesInitializedAlone(c) ==
  \A a \in InitializedIn(pred[c].auth) :
    /\ authority[a] = pred[c].auth[a]
    /\ \A k \in Tries(log[c]) : AuthorityOf(log[c][k]) = a => log[c][k].res

\* C5 as stated: two calls in sequence with identical configs leave the same
\* set of authorities initialized after the second as after the first, and
\* the second call's TryInitialize invocations on initialized authorities
\* change nothing and count as success.
C5_Original ==
  \A c \in Callers :
    RepeatsReturnedCall(c) =>
      /\ Initialized = InitializedIn(pred[c].auth)
      /\ LeavesInitializedAlone(c)

\* C5 amended: two calls in sequence with identical configs: every authority
\* initialized after the first call is still initialized, with the same
\* config, after the second, and the second call's TryInitialize invocations
\* on them count as success; the two sets are equal when the first call
\* returned success (an authority that rejected every attempt of the first
\* call may accept one of the second).
C5_Amended ==
  \A c \in Callers :
    RepeatsReturnedCall(c) =>
      /\ LeavesInitializedAlone(c)
      /\ InitializedIn(pred[c].auth) \subseteq Initialized
      /\ pred[c].ok => Initialized = InitializedIn(pred[c].auth)

\* The same record was passed twice in sequence; the first call left one
\* authority initialized and one not, the second call initialized the other.
C5_Witness ==
  \E c \in Callers :
    /\ RepeatsReturnedCall(c) /\ Len(configs[c]) = 1
    /\ InitializedIn(pred[c].auth) # {}
    /\ InitializedIn(pred[c].auth) # Initialized
    /\ \E k \in Tries(log[c]) :
         /\ log[c][k].rec = 1
         /\ AuthorityOf(log[c][k]) \in InitializedIn(pred[c].auth)

\* C6: once one call has returned success, no step of any call, sequential or
\* overlapping, changes any authority's latch or config, and every
\* TryInitialize made from then on reports success.
C6_NoEffectAfterSuccess ==
  [][(\E c \in Callers : Done(c) /\ ok[c]) =>
       /\ authority' = authority
       /\ \A d \in Callers :
            \A k \in Tries(log'[d]) : k > Len(log[d]) => log'[d][k].res]_vars

\* After a call returned success, a later call has passed a config that
\* differs from the one its authority holds; it has returned and every
\* authority is as the first call left it.
C6_Witness ==
  \E d \in Callers :
    /\ Done(d) /\ pred[d].real /\ pred[d].ok
    /\ authority = pred[d].auth
    /\ \E k \in Tries(log[d]) :
         /\ log[d][k].rec > 0 /\ log[d][k].res
         /\ authority[AuthorityOf(log[d][k])].config # log[d][k].cfg

\* The record at position i of cfgs derives an identifier that has an entry
\* in neither map.
MatchesNothing(cfgs, i) ==
  LET r == GenerateAuthorityId(cfgs[i].identity_type, cfgs[i].authority_type)
  IN r.ok /\ ~GetValue(generators, r.value) /\ ~GetValue(verifiers, r.value)

\* C7: a record matching no generator and no verifier makes the call fail
\* without aborting it: every record is processed, the second pass invokes
\* TryInitialize("") on every registered authority, and each authority that
\* accepted is initialized although the call reports failure.
C7_NoMatchTolerance ==
  \A c \in Callers :
    (Done(c) /\ \E i \in 1..Len(configs[c]) : MatchesNothing(configs[c], i)) =>
      /\ ~ok[c]
      /\ \A i \in 1..Len(configs[c]) : RecordEvents(log[c], i) # {}
      /\ \A a \in Authorities :
           \E k \in SecondPass(log[c]) :
             AuthorityOf(log[c][k]) = a /\ log[c][k].cfg = ""
      /\ \A k \in SecondPass(log[c]) :
           log[c][k].res => authority[AuthorityOf(log[c][k])].initialized

\* Scenario B: the maps hold generator "A:1" and verifier "A:1", the only
\* record names "A:2"; the call returned failure and both authorities are
\* initialized with the empty config.
C7_Witness ==
  \E c \in Callers :
    /\ Done(c) /\ ~ok[c]
    /\ configs[c] = << [identity_type |-> "A", authority_type |-> "2",
                        config |-> "x"] >>
    /\ Authorities = { <<"gen", <<"A", "1">> >>, <<"ver", <<"A", "1">> >> }
    /\ \A a \in Authorities :
         authority[a].initialized /\ authority[a].config = ""

\* C8: a call with an empty config range invokes TryInitialize with the
\* empty config on every registered generator and verifier, and returns
\* success if and only if every one of those invocations succeeds.
C8_EmptyInput ==
  \A c \in Callers :
    (Done(c) /\ configs[c] = <<>>) =>
      /\ \A k \in Indices(log[c]) :
           log[c][k].kind = "try" /\ log[c][k].cfg = ""
      /\ Authorities \subseteq TriedBy(log[c])
      /\ ok[c] <=> \A k \in Tries(log[c]) : log[c][k].res

\* Two calls with an empty range have returned: one met a rejection and
\* failed, the other returned success.
C8_Witness ==
  \E c, d \in Callers :
    /\ Done(c) /\ configs[c] = <<>> /\ ~ok[c]
    /\ Done(d) /\ configs[d] = <<>> /\ ok[d]
    /\ Len(log[c]) = 2 /\ Len(log[d]) = 2

C10_OnlyLatchesChange ==
  [][/\ generators' = generators
     /\ verifiers' = verifiers
     /\ DOMAIN authority' = DOMAIN authority
     /\ \A a \in Authorities :
          \/ authority'[a] = authority[a]
          \/ ~authority[a].initialized /\ authority'[a].initialized]_vars

\* The only call so far initialized an authority, failed at a later step and
\* returned failure; the authority is still initialized.
C10_Witness ==
  \E c \in Callers :
    /\ Done(c) /\ ~ok[c]
    /\ \A d \in Callers \ {c} : pc[d] = "idle"
    /\ \E k1, k2 \in Indices(log[c]) :
         /\ k1 < k2
         /\ log[c][k1].kind = "try" /\ log[c][k1].res
         /\ ~log[c][k2].res
         /\ authority[AuthorityOf(log[c][k1])].initialized
         /\ authority[AuthorityOf(log[c][k1])].config = log[c][k1].cfg

\* The call of c observed a failure of its own: a failed derivation, a lookup
\* without an entry or a failed TryInitialize.
OwnFailure(c) ==
  DerivationFailed(log[c]) \/ LookupFailed(log[c]) \/ TryFailed(log[c])

\* C11: with two callers in the function, a call's accumulator, and so its
\* returned status, is failure only if that call itself observed a failure;
\* a failure only the other caller observed never makes it fail.
C11_OwnFailuresOnly ==
  \A c \in Callers : (pc[c] # "idle" /\ ~ok[c]) => OwnFailure(c)

\* Two overlapping calls have returned: one observed a failure and returned
\* failure, the other observed none and returned ok.
C11_Witness ==
  \E c, d \in Callers :
    /\ ~pred[2].real
    /\ Done(c) /\ ~ok[c] /\ OwnFailure(c)
    /\ Done(d) /\ ok[d] /\ ~OwnFailure(d)

\* The call of c ran alone from the initial state, where every authority is
\* uninitialized, and has returned.
Solo(c) ==
  /\ Done(c) /\ ~pred[c].real
  /\ \A d \in Callers \ {c} : pc[d] = "idle"

\* The TryInitialize invocations of the first loop on authority a.
RecordTries(l, a) ==
  { k \in Tries(l) : l[k].rec > 0 /\ AuthorityOf(l[k]) = a }

\* The first of a non-empty set of positions.
First(S) == CHOOSE k \in S : \A j \in S : k <= j

\* No record of the call names the identifier authority a is registered under.
NoRecordNames(c, a) ==
  \A i \in 1..Len(configs[c]) :
    <<configs[c][i].identity_type, configs[c][i].authority_type>> # a[2]

\* The second pass follows the whole first loop, and an authority that the
\* first loop initialized keeps that config through the second pass.
ProvidedConfigsFirst(c) ==
  /\ \A k1, k2 \in Indices(log[c]) :
       (k1 < k2 /\ log[c][k1].rec = 0) => log[c][k2].rec = 0
  /\ \A i \in 1..Len(configs[c]) : RecordEvents(log[c], i) # {}
  /\ \A a \in Authorities :
       LET won == { k \in RecordTries(log[c], a) : log[c][k].res }
       IN won # {} =>
            /\ authority[a].config = log[c][First(won)].cfg
            /\ \A k \in SecondPass(log[c]) :
                 AuthorityOf(log[c][k]) = a => log[c][k].res

\* C12 as stated: in a single non-concurrent call on uninitialized
\* authorities the second pass follows the whole first loop, and an
\* authority ends initialized with the empty config only if no record named
\* its identifier or every TryInitialize with a record naming it was rejected.
C12_Original ==
  \A c \in Callers :
    Solo(c) =>
      /\ ProvidedConfigsFirst(c)
      /\ \A a \in Authorities :
           (authority[a].initialized /\ authority[a].config = "") =>
             \/ NoRecordNames(c, a)
             \/ \A k \in RecordTries(log[c], a) : ~log[c][k].res

\* C12 amended: as stated, except that an authority also ends initialized
\* with the empty config when the record it accepted carried an empty
\* payload itself.
C12_Amended ==
  \A c \in Callers :
    Solo(c) =>
      /\ ProvidedConfigsFirst(c)
      /\ \A a \in Authorities :
           (authority[a].initialized /\ authority[a].config = "") =>
             \/ NoRecordNames(c, a)
             \/ \A k \in RecordTries(log[c], a) : ~log[c][k].res
             \/ \E k \in RecordTries(log[c], a) :
                  log[c][k].res /\ log[c][k].cfg = ""

\* A call that ran alone passed "x" for generator "A:1", which accepted it
\* and kept it through the second pass; generator "A:2", named by no record,
\* was initialized with the empty config.
C12_Witness ==
  \E c \in Callers :
    /\ Solo(c) /\ Len(configs[c]) = 1
    /\ <<"gen", <<"A", "2">> >> \in Authorities
    /\ authority[<<"gen", <<"A", "1">> >>].config = "x"
    /\ authority[<<"gen", <<"A", "2">> >>].config = ""
    /\ \E k \in SecondPass(log[c]) :
         AuthorityOf(log[c][k]) = <<"gen", <<"A", "1">> >> /\ log[c][k].res

\* C13: an authority that rejected a record's config is tried again with the
\* empty config by the second pass of the same call; the call returns
\* failure, and when the authority accepts it ends initialized, with the
\* empty config when the call ran alone and no record's config was accepted.
C13_RejectedIsRetried ==
  \A c \in Callers :
    Done(c) =>
      \A a \in Authorities :
        (\E k \in RecordTries(log[c], a) : ~log[c][k].res) =>
          /\ ~ok[c]
          /\ \E k \in SecondPass(log[c]) :
               /\ AuthorityOf(log[c][k]) = a /\ log[c][k].cfg = ""
               /\ \A j \in RecordTries(log[c], a) : j < k
               /\ log[c][k].res => authority[a].initialized
               /\ (/\ log[c][k].res /\ Solo(c)
                   /\ \A j \in RecordTries(log[c], a) : ~log[c][j].res)
                    => authority[a].config = ""

\* A call that ran alone had "x" rejected by an authority, whose second-pass
\* TryInitialize("") succeeded: the authority holds the empty config and the
\* call returned failure.
C13_Witness ==
  \E c \in Callers :
    /\ Solo(c) /\ ~ok[c]
    /\ \E a \in Authorities :
         /\ RecordTries(log[c], a) # {}
         /\ \A k \in RecordTries(log[c], a) :
              ~log[c][k].res /\ log[c][k].cfg = "x"
         /\ authority[a].initialized /\ authority[a].config = ""
         /\ Cardinality({ k \in Indices(log[c]) : ~log[c][k].res }) = 1

\* The (identity_type, authority_type) pair of a record.
PairOf(r) == <<r.identity_type, r.authority_type>>

\* Records i < j of cfgs name the same identifier with different payloads.
SameIdOtherPayload(cfgs, i, j) ==
  /\ i < j
  /\ cfgs[i].identity_type # UnknownIdentity
  /\ PairOf(cfgs[i]) = PairOf(cfgs[j])
  /\ cfgs[i].config # cfgs[j].config

\* The call of c passed two records naming authority a with different payloads.
PassedTwoPayloads(c, a) ==
  \E i, j \in 1..Len(configs[c]) :
    SameIdOtherPayload(configs[c], i, j) /\ PairOf(configs[c][i]) = a[2]

\* The successful TryInitialize invocations of the first loop on a.
Won(c, a) == { k \in RecordTries(log[c], a) : log[c][k].res }

\* Every TryInitialize of the first loop on a after the first successful
\* one reports success.
LaterPayloadsSucceed(c, a) ==
  \A k \in RecordTries(log[c], a) : k > First(Won(c, a)) => log[c][k].res

\* C14 as stated, for a call that overlaps no other call: of two records
\* naming one identifier with different payloads, the authority holds the
\* payload of the first whose TryInitialize succeeds; later ones report
\* success and are discarded.
C14_Original ==
  \A c \in Callers :
    (Solo(c) \/ (Done(c) /\ pred[c].real)) =>
      \A a \in Authorities :
        (PassedTwoPayloads(c, a) /\ Won(c, a) # {}) =>
          /\ authority[a].config = log[c][First(Won(c, a))].cfg
          /\ LaterPayloadsSucceed(c, a)

\* C14 amended: every later TryInitialize for the identifier reports success
\* and its payload is discarded; the authority holds the payload of the
\* first record whose TryInitialize succeeds when no earlier or overlapping
\* call had initialized it, and an authority an earlier call left
\* initialized keeps the config it had.
C14_Amended ==
  \A c \in Callers :
    Done(c) =>
      \A a \in Authorities :
        (PassedTwoPayloads(c, a) /\ Won(c, a) # {}) =>
          /\ LaterPayloadsSucceed(c, a)
          /\ (Solo(c) \/ (pred[c].real /\ ~pred[c].auth[a].initialized)) =>
               authority[a].config = log[c][First(Won(c, a))].cfg
          /\ (pred[c].real /\ pred[c].auth[a].initialized) =>
               authority[a] = pred[c].auth[a]

\* A call that ran alone passed "x" and then "" for "A:1": the generator
\* holds "x", the second record's TryInitialize reported success and the
\* call returned ok.
C14_Witness ==
  \E c \in Callers :
    /\ Solo(c) /\ ok[c]
    /\ Len(configs[c]) = 2 /\ SameIdOtherPayload(configs[c], 1, 2)
    /\ configs[c][1].config = "x"
    /\ <<"gen", <<"A", "1">> >> \in Authorities
    /\ authority[<<"gen", <<"A", "1">> >>].config = "x"
    /\ \E k \in RecordTries(log[c], <<"gen", <<"A", "1">> >>) :
         log[c][k].rec = 2 /\ log[c][k].res

\* The record at position i has a TryInitialize on the authority of map reg
\* registered under the record's identifier, with the record's payload.
TriedWithPayload(c, i, reg) ==
  \E k \in RecordEvents(log[c], i) :
    /\ log[c][k].kind = "try" /\ log[c][k].reg = reg
    /\ log[c][k].id = PairOf(configs[c][i])
    /\ log[c][k].cfg = configs[c][i].config

\* C15: the two lookups of a record are independent: an identifier present
\* in only one of the maps still has that authority tried with the record's
\* payload, and the call returns failure for the missing counterpart.
C15_IndependentLookups ==
  \A c \in Callers :
    Done(c) =>
      \A i \in 1..Len(configs[c]) :
        LET r == configs[c][i]
            g == GetValue(generators, PairOf(r))
            v == GetValue(verifiers, PairOf(r))
        IN r.identity_type # UnknownIdentity =>
             /\ g => TriedWithPayload(c, i, "gen")
             /\ v => TriedWithPayload(c, i, "ver")
             /\ (g # v) =>
                  /\ ~ok[c]
                  /\ \E k \in RecordEvents(log[c], i) :
                       /\ log[c][k].kind = "miss"
                       /\ log[c][k].reg = IF g THEN "ver" ELSE "gen"

\* "A:1" is registered only as a verifier: a record naming it with "x" found
\* no generator, the verifier was initialized with "x", and the call
\* returned failure.
C15_Witness ==
  \E c \in Callers :
    /\ Done(c) /\ ~ok[c] /\ Len(configs[c]) = 1
    /\ generators = <<>>
    /\ log[c][1].kind = "miss" /\ log[c][1].reg = "gen"
    /\ TriedWithPayload(c, 1, "ver")
    /\ authority[<<"ver", <<"A", "1">> >>].config = "x"

\* C16: when a call has returned success, every registered generator and
\* verifier is initialized, also when calls overlap.
C16_SuccessMeansAllInitialized ==
  \A c \in Callers : (Done(c) /\ ok[c]) => Initialized = Authorities

\* Two overlapping calls have returned, one with success and one with
\* failure; every authority is initialized (so failure does not mean that
\* some authority is uninitialized).
C16_Witness ==
  \E c, d \in Callers :
    /\ ~pred[2].real
    /\ Done(c) /\ ok[c] /\ Len(log[c]) > 0
    /\ Done(d) /\ ~ok[d]
    /\ Initialized = Authorities

\* C17: an initialized authority holds the empty config or the payload of a
\* record naming its own identifier; every TryInitialize of the first loop
\* passes the record's payload to an authority registered under the
\* record's identifier, the same for the generator and the verifier.
C17_ConfigProvenance ==
  /\ \A a \in Authorities :
       authority[a].initialized =>
         \/ authority[a].config = ""
         \/ \E c \in Callers : \E i \in 1..Len(configs[c]) :
              /\ PairOf(configs[c][i]) = a[2]
              /\ configs[c][i].config = authority[a].config
  /\ \A c \in Callers : \A k \in Tries(log[c]) :
       log[c][k].rec > 0 =>
         /\ log[c][k].id = PairOf(configs[c][log[c][k].rec])
         /\ log[c][k].cfg = configs[c][log[c][k].rec].config

\* One record reached the generator and the verifier registered under its
\* identifier; both hold its payload, after a record naming another
\* identifier was processed by the same or the other call.
C17_Witness ==
  \E c \in Callers :
    /\ Done(c)
    /\ \E i \in 1..Len(configs[c]) :
         /\ TriedWithPayload(c, i, "gen") /\ TriedWithPayload(c, i, "ver")
         /\ configs[c][i].config = "x"
         /\ \A a \in Authorities : authority[a].config = "x"
    /\ \E d \in Callers : \E j \in 1..Len(configs[d]) :
         PairOf(configs[d][j]) = <<"A", "2">> /\ RecordEvents(log[d], j) # {}

\* C18: under fair scheduling every call that has entered the function
\* returns, whatever the other caller does, and it returns once: its status
\* never changes afterwards.
C18_Terminates ==
  /\ \A c \in Callers : (pc[c] # "idle") ~> Done(c)
  /\ [][\A c \in Callers :
          Done(c) => (pc'[c] = "done" /\ ok'[c] = ok[c])]_vars

\* Two overlapping calls, each with a record, have both returned.
C18_Witness ==
  /\ ~pred[2].real
  /\ \A c \in Callers : Done(c) /\ Len(configs[c]) = 1
====
